---- MODULE Spec2Model ----
(***************************************************************************)
(* Gurbani Wisdom: the content pipeline of main.py (fetch, generate,       *)
(* format, save, advance) and the progress tracker of storage.py.          *)
(*                                                                         *)
(* A JSON object is a TLA+ function from its keys to its values, so that   *)
(* "the key is absent" is "the key is not in the DOMAIN".  A file on disk  *)
(* is a record with a kind: absent, or one of the shapes json.load can     *)
(* meet when it reads it.                                                  *)
(***************************************************************************)
EXTENDS Integers, Sequences, FiniteSets, TLC

\* ------------------------------------------------------------ config.py
\* config.TOTAL_ANGS is 1430; the model runs the same code over a short id
\* space so that the end of the id space is reached.
TOTAL_ANGS == 3
STARTING_ANG == 1
SAVE_HTML == TRUE
SAVE_TEXT == TRUE

\* Largest --batch count the model passes on the command line.
MaxBatch == 2
\* Largest total_processed the storage harness lets the counter reach.
MaxTotal == 3

Procs == {"p1", "p2"}
\* The processes that run one after another in the sequential model.
Runners == {"p1"}

\* ------------------------------------------------------------ JSON values
Get(d, key, default) == IF key \in DOMAIN d THEN d[key] ELSE default

Put(d, key, value) ==
  [x \in (DOMAIN d) \cup {key} |-> IF x = key THEN value ELSE d[x]]

\* The elements of a sequence.
Range(seq) == {seq[n] : n \in 1 .. Len(seq)}

\* ------------------------------------------------------------ files on disk
AbsentFile == [kind |-> "absent"]
\* an empty or truncated file, or text that is not JSON: json.JSONDecodeError
InvalidJsonFile == [kind |-> "invalid_json"]
\* valid JSON that is not an object (null, a list, a number, a string)
NonObjectFile == [kind |-> "non_object"]
\* bytes that are not UTF-8: UnicodeDecodeError out of file.read()
UndecodableFile == [kind |-> "undecodable"]
ObjectFile(d) == [kind |-> "object", data |-> d]

\* ------------------------------------------------------------ storage.py
initial_progress ==
  [current_ang |-> STARTING_ANG, last_processed |-> "None",
   total_processed |-> 0, started_at |-> "ts"]

Returned(v) == [raised |-> FALSE, value |-> v]
Raised == [raised |-> TRUE]

\* load_progress: the only exception handled is json.JSONDecodeError.  A
\* non-object document is returned by json.load and then fails at
\* progress.get(...) inside the print; undecodable bytes fail in json.load
\* with UnicodeDecodeError.
load_progress(file) ==
  CASE file.kind = "absent" -> Returned(initial_progress)
    [] file.kind = "invalid_json" -> Returned(initial_progress)
    [] file.kind = "object" -> Returned(file.data)
    [] file.kind = "non_object" -> Raised
    [] file.kind = "undecodable" -> Raised

\* get_next_ang with the comparison off by one (>= for >).
MutantGetNextOffByOne(file) ==
  LET r == load_progress(file) IN
  IF r.raised THEN Raised
  ELSE LET current_ang == Get(r.value, "current_ang", STARTING_ANG) IN
       IF current_ang >= TOTAL_ANGS THEN Returned(<<>>)
       ELSE Returned(<<current_ang>>)

\* get_next_ang: <<k>> for the next Ang, <<>> for None.
get_next_ang(file) ==
  LET r == load_progress(file) IN
  IF r.raised THEN Raised
  ELSE LET current_ang == Get(r.value, "current_ang", STARTING_ANG) IN
       IF current_ang > TOTAL_ANGS THEN Returned(<<>>)
       ELSE Returned(<<current_ang>>)

\* The four assignments of mark_ang_as_processed on the loaded dict.
MutantUpdateNoCount(progress, ang_number) ==
  Put(Put(Put(Put(progress,
    "current_ang", ang_number + 1),
    "last_processed", "ts"),
    "total_processed", Get(progress, "total_processed", 0)),
    "last_ang_done", ang_number)

MutantUpdateNoAdvance(progress, ang_number) ==
  Put(Put(Put(Put(progress,
    "current_ang", ang_number),
    "last_processed", "ts"),
    "total_processed", Get(progress, "total_processed", 0) + 1),
    "last_ang_done", ang_number)

progress_update(progress, ang_number) ==
  Put(Put(Put(Put(progress,
    "current_ang", ang_number + 1),
    "last_processed", "ts"),
    "total_processed", Get(progress, "total_processed", 0) + 1),
    "last_ang_done", ang_number)

\* save_progress: open(..., 'w') truncates the file, json.dump then writes
\* it.  The two halves are separate steps of a process.
save_progress_open == InvalidJsonFile
save_progress_written(progress) == ObjectFile(progress)

\* mark_ang_as_processed as one call: what it leaves on disk, or the raise.
mark_ang_as_processed(file, ang_number) ==
  LET r == load_progress(file) IN
  IF r.raised THEN [raised |-> TRUE, file |-> file]
  ELSE [raised |-> FALSE,
        file |-> save_progress_written(progress_update(r.value, ang_number))]

MutantResetNoExistsCheck(file) ==
  IF file.kind # "absent"
  THEN [raised |-> FALSE, file |-> AbsentFile]
  ELSE [raised |-> TRUE, file |-> file]

\* A reset that rewrites the file with the initial state instead of
\* removing it.
MutantResetRewrites(file) ==
  [raised |-> FALSE, file |-> save_progress_written(initial_progress)]

\* reset_progress: remove the file when it exists, otherwise only a message.
reset_progress(file) ==
  IF file.kind # "absent"
  THEN [raised |-> FALSE, file |-> AbsentFile]
  ELSE [raised |-> FALSE, file |-> file]

\* f"ang_{ang_number:04d}": the decimal digits, zero-padded to width 4.
RECURSIVE Digits(_)
Digits(n) == IF n < 10 THEN <<n>> ELSE Append(Digits(n \div 10), n % 10)

RECURSIVE PadLeft(_, _)
PadLeft(s, width) == IF Len(s) >= width THEN s ELSE PadLeft(<<0>> \o s, width)

\* The width of the comment above the format ("ang_001.html") for the one of
\* the format.
MutantWidth3(ang_number) == PadLeft(Digits(ang_number), 3)

base_filename(ang_number) == PadLeft(Digits(ang_number), 4)

OutputPath(ang_number, ext) == [base |-> base_filename(ang_number), ext |-> ext]

\* The paths save_output writes for an Ang, in the order html, txt.
html_paths(ang_number) ==
  IF SAVE_HTML THEN {OutputPath(ang_number, "html")} ELSE {}

text_paths(ang_number) ==
  IF SAVE_TEXT THEN {OutputPath(ang_number, "txt")} ELSE {}

\* ------------------------------------------------------------ Python values
\* The values json.loads builds, tagged by type: None, str, int, dict, list.
PyNone == [t |-> "null"]
PyStr(s) == [t |-> "str", s |-> s]
PyInt(n) == [t |-> "int", n |-> n]
PyDict(o) == [t |-> "dict", o |-> o]
PyList(l) == [t |-> "list", l |-> l]

EmptyDict == [k \in {} |-> PyNone]

\* bool(v)
Bool(v) ==
  CASE v.t = "null" -> FALSE
    [] v.t = "str" -> v.s # ""
    [] v.t = "int" -> v.n # 0
    [] v.t = "dict" -> DOMAIN v.o # {}
    [] v.t = "list" -> v.l # <<>>

\* a or b
Or(a, b) == IF Bool(a) THEN a ELSE b

\* d.get(key, default) of a dict d
dict_get(d, key, default) == Get(d.o, key, default)

\* v has a .get method: of the values above only a dict has.
HasGet(v) == v.t = "dict"

\* ------------------------------------------------------------ gurbani_api.py
\* extract_transliteration with the two keys tried in the other order.
MutantTransliterationEnFirst(verse) ==
  LET trans_obj == dict_get(verse, "transliteration", PyDict(EmptyDict)) IN
  IF trans_obj.t = "str" THEN trans_obj
  ELSE IF trans_obj.t = "dict" THEN
    Or(dict_get(trans_obj, "en", PyStr("")),
       dict_get(trans_obj, "english", PyStr("")))
  ELSE PyStr("")

\* extract_transliteration(verse), verse a dict.
extract_transliteration(verse) ==
  LET trans_obj == dict_get(verse, "transliteration", PyDict(EmptyDict)) IN
  IF trans_obj.t = "str" THEN trans_obj
  ELSE IF trans_obj.t = "dict" THEN
    Or(dict_get(trans_obj, "english", PyStr("")),
       dict_get(trans_obj, "en", PyStr("")))
  ELSE PyStr("")

\* extract_translation(verse), verse a dict.  trans_obj.get raises
\* AttributeError when "translation" holds anything but a dict.
extract_translation(verse) ==
  LET trans_obj == dict_get(verse, "translation", PyDict(EmptyDict)) IN
  IF ~HasGet(trans_obj) THEN Raised
  ELSE
    LET en_trans == dict_get(trans_obj, "en", PyDict(EmptyDict)) IN
    IF en_trans.t = "str" THEN Returned(en_trans)
    ELSE IF en_trans.t = "dict" THEN
      Returned(Or(Or(dict_get(en_trans, "bdb", PyStr("")),
                     dict_get(en_trans, "ms", PyStr(""))),
                  dict_get(en_trans, "ssk", PyStr(""))))
    ELSE Returned(PyStr(""))

\* One entry of allVerses: the verse_data dict parse_ang_data builds for a
\* verse of the page.  verse.get, verse_obj.get, extract_translation and
\* the .get on "raag" and "writer" raise AttributeError on anything but a
\* dict.
verse_data(verse) ==
  IF ~HasGet(verse) THEN Raised
  ELSE
    LET verse_obj == dict_get(verse, "verse", PyDict(EmptyDict))
        translation == extract_translation(verse)
        raag == dict_get(verse, "raag", PyDict(EmptyDict))
        writer == dict_get(verse, "writer", PyDict(EmptyDict))
    IN
    IF translation.raised \/ ~HasGet(verse_obj) \/ ~HasGet(raag) \/ ~HasGet(writer)
    THEN Raised
    ELSE Returned(
      [gurmukhi |-> dict_get(verse_obj, "gurmukhi", PyStr("")),
       unicode |-> dict_get(verse_obj, "unicode", PyStr("")),
       transliteration |-> extract_transliteration(verse),
       translation_english |-> translation.value,
       raag |-> Or(dict_get(raag, "unicode", PyStr("")),
                   dict_get(raag, "english", PyStr("Unknown"))),
       writer |-> dict_get(writer, "english", PyStr("Unknown"))])

\* "\n".join(strings)
RECURSIVE JoinLines(_)
JoinLines(strings) ==
  IF strings = <<>> THEN ""
  ELSE IF Len(strings) = 1 THEN strings[1]
  ELSE strings[1] \o "\n" \o JoinLines(Tail(strings))

\* The comprehension's filter dropped: every verse is kept.
MutantKeepAll(allVerses, field) == allVerses

\* [v for v in allVerses if v[field]]
kept_verses(allVerses, field) ==
  SelectSeq(allVerses, LAMBDA v : Bool(v[field]))

\* "\n".join([v[field] for v in allVerses if v[field]]): str.join raises
\* TypeError on an item that is not a str.
combined(allVerses, field) ==
  LET kept == kept_verses(allVerses, field) IN
  IF \E n \in 1 .. Len(kept) : kept[n][field].t # "str" THEN Raised
  ELSE Returned(PyStr(JoinLines([n \in 1 .. Len(kept) |-> kept[n][field].s])))

\* The page number of the payload preferred to the requested one.
MutantPagenoFirst(requested_ang, api_pageno) ==
  IF Bool(api_pageno) THEN api_pageno
  ELSE IF Bool(requested_ang) THEN requested_ang
  ELSE PyInt(0)

\* if requested_ang: ... elif api_pageno: ... else: 0
choose_ang_number(requested_ang, api_pageno) ==
  IF Bool(requested_ang) THEN requested_ang
  ELSE IF Bool(api_pageno) THEN api_pageno
  ELSE PyInt(0)

\* parsed_data as parse_ang_data initialises it.
parsed_defaults ==
  [angNumber |-> PyNone,
   date |-> PyNone,
   mainVerse |-> [gurmukhi |-> PyStr(""), unicode |-> PyStr(""),
                  transliteration |-> PyStr(""),
                  translation |-> [english |-> PyStr("")]],
   metadata |-> [raag |-> PyStr("Unknown"), writer |-> PyStr("Unknown")],
   allVerses |-> <<>>]

\* parsed_data["allVerses"][0]
first_verse_data(allVerses) == allVerses[1]

\* parse_ang_data(raw_data), raw_data a dict.
parse_ang_data(raw_data) ==
  LET page_info == dict_get(raw_data, "pageinfo", PyDict(EmptyDict))
      requested_ang == dict_get(raw_data, "_requested_ang", PyNone)
      verses == dict_get(raw_data, "page", PyList(<<>>))
  IN
  IF ~HasGet(page_info) THEN Raised
  ELSE
    LET api_pageno == Or(dict_get(page_info, "pageno", PyNone),
                         dict_get(page_info, "page", PyNone))
        dated == [parsed_defaults EXCEPT
                    !.angNumber = choose_ang_number(requested_ang, api_pageno),
                    !.date = PyStr("today")]
    IN
    IF ~Bool(verses) THEN Returned(dated)
    ELSE IF verses.t # "list" THEN Raised
    ELSE IF \E n \in 1 .. Len(verses.l) : verse_data(verses.l[n]).raised THEN Raised
    ELSE
      LET allVerses == [n \in 1 .. Len(verses.l) |-> verse_data(verses.l[n]).value]
          first == first_verse_data(allVerses)
          combined_unicode == combined(allVerses, "unicode")
          combined_transliteration == combined(allVerses, "transliteration")
          combined_english == combined(allVerses, "translation_english")
      IN
      IF combined_unicode.raised \/ combined_transliteration.raised
         \/ combined_english.raised
      THEN Raised
      ELSE Returned(
        [dated EXCEPT
           !.allVerses = allVerses,
           !.metadata = [raag |-> first.raag, writer |-> first.writer],
           !.mainVerse = [unicode |-> combined_unicode.value,
                          gurmukhi |-> combined_unicode.value,
                          transliteration |-> combined_transliteration.value,
                          translation |-> [english |-> combined_english.value]]])

\* fetch_ang_data(ang_number): None for every failure of the request, the
\* decoded body with _requested_ang added otherwise; a body that is not a
\* JSON object fails at the item assignment and ends in except Exception.
fetch_ang_data(ang_number, fo, body) ==
  IF fo # "ok" \/ body.t # "dict" THEN PyNone
  ELSE PyDict(Put(body.o, "_requested_ang", PyInt(ang_number)))

\* get_ang(ang_number): None, or what parse_ang_data returns or raises.
get_ang(ang_number, fo, body) ==
  LET raw_data == fetch_ang_data(ang_number, fo, body) IN
  IF raw_data = PyNone THEN Returned(PyNone)
  ELSE parse_ang_data(raw_data)

\* ------------------------------------------------------------ ollama_client.py
\* The alternative fields, in the order extract_response_from_thinking_model
\* tries them.
AlternativeFields == <<"content", "text", "output", "message", "generated_text">>

\* What the loop body returns for a field, as <<value>>, or <<>> when it
\* goes on to the next field.
probe_field(result, field) ==
  IF field \in DOMAIN result.o /\ Bool(result.o[field]) THEN
    LET value == result.o[field] IN
    IF value.t = "str" /\ Bool(value) THEN <<value>>
    ELSE IF value.t = "dict" /\ "content" \in DOMAIN value.o THEN <<value.o["content"]>>
    ELSE <<>>
  ELSE <<>>

\* The loop over the fields from the n-th on, and the return "" after it.
RECURSIVE probe_from(_, _)
probe_from(result, n) ==
  IF n > Len(AlternativeFields) THEN PyStr("")
  ELSE LET found == probe_field(result, AlternativeFields[n]) IN
       IF found # <<>> THEN found[1] ELSE probe_from(result, n + 1)

\* thinking and response combined the other way round.
MutantResponseFirst(thinking, response) ==
  PyStr(response.s \o "\n\n---\n\n" \o thinking.s)

\* f"{thinking}\n\n---\n\n{response}" of two strings
thinking_then_response(thinking, response) ==
  PyStr(thinking.s \o "\n\n---\n\n" \o response.s)

\* extract_response_from_thinking_model(result), result a dict.
extract_response_from_thinking_model(result) ==
  LET thinking == dict_get(result, "thinking", PyStr(""))
      response == dict_get(result, "response", PyStr(""))
  IN
  IF Bool(thinking) THEN
    IF Bool(response) THEN thinking_then_response(thinking, response)
    ELSE thinking
  ELSE IF Bool(response) THEN response
  ELSE probe_from(result, 1)

\* len(v) is defined: of the values above for a str, a dict and a list.
HasLen(v) == v.t \in {"str", "dict", "list"}

\* What generate_meaning_with_thinking returns on every failure.
empty_result ==
  [thinking |-> PyStr(""), response |-> PyStr(""), full_response |-> PyStr("")]

\* generate_meaning_with_thinking, the request ending as go ("ok": a 200
\* answer whose body decodes to result).  Everything is inside one try whose
\* handlers return empty_result: a result without .get, a total_duration that
\* cannot be divided, len() of a thinking, response or extracted text that has
\* none, and the slice and replace of the preview on anything but a str.
generate_meaning_with_thinking(go, result) ==
  IF go # "ok" \/ ~HasGet(result) THEN empty_result
  ELSE
    LET total_duration == dict_get(result, "total_duration", PyInt(0))
        thinking_content == dict_get(result, "thinking", PyStr(""))
        response_content == dict_get(result, "response", PyStr(""))
        generated_text == extract_response_from_thinking_model(result)
    IN
    IF total_duration.t # "int" THEN empty_result
    ELSE IF ~HasLen(thinking_content) \/ ~HasLen(response_content) THEN empty_result
    ELSE IF ~HasLen(generated_text) THEN empty_result
    ELSE IF ~Bool(generated_text) THEN empty_result
    ELSE IF generated_text.t # "str" THEN empty_result
    ELSE [thinking |-> thinking_content, response |-> response_content,
          full_response |-> generated_text]

\* What a call of generate_meaning_with_thinking leaves in
\* debug_response.json: <<result>> when it reaches the json.dump under
\* "if not generated_text", <<>> when it writes nothing.  The three len()
\* calls and the division stand between the answer and that branch.
debug_response(go, result) ==
  IF go # "ok" \/ ~HasGet(result) THEN <<>>
  ELSE
    LET total_duration == dict_get(result, "total_duration", PyInt(0))
        thinking_content == dict_get(result, "thinking", PyStr(""))
        response_content == dict_get(result, "response", PyStr(""))
        generated_text == extract_response_from_thinking_model(result)
    IN
    IF total_duration.t # "int" THEN <<>>
    ELSE IF ~HasLen(thinking_content) \/ ~HasLen(response_content) THEN <<>>
    ELSE IF ~HasLen(generated_text) THEN <<>>
    ELSE IF ~Bool(generated_text) THEN <<result>>
    ELSE <<>>

\* if done_reason == "length"
hit_token_limit(result) ==
  dict_get(result, "done_reason", PyStr("unknown")) = PyStr("length")

\* The call prints "Warning: Hit token limit!": it reached the test of
\* done_reason, and the test held.  The dict it returns is built after that,
\* from thinking, response and the extracted text alone.
token_limit_warning(go, result) ==
  IF go # "ok" \/ ~HasGet(result) THEN FALSE
  ELSE IF dict_get(result, "total_duration", PyInt(0)).t # "int" THEN FALSE
  ELSE hit_token_limit(result)

\* process_ang: ai_result.get("full_response", "") or ai_result.get("response", "")
ai_response(ai_result) ==
  Or(Get(ai_result, "full_response", PyStr("")), Get(ai_result, "response", PyStr("")))

\* ------------------------------------------------------------ the outside
\* What requests.get of the BaniDB API ends with (fetch_ang_data).
FetchOutcomes == {"ok", "timeout", "connection_error", "http_error", "other_error"}

\* What the POST to Ollama ends with (generate_meaning_with_thinking):
\* text extracted, nothing extracted, or an exception: Timeout,
\* ConnectionError, or any other one (an HTTPError among them).
GenOutcomes ==
  {"text", "empty", "timeout", "connection_error", "http_error", "other_error"}

\* argparse: an int option is <<>> when not given, <<n>> when given.
AngArgs == {<<>>} \cup {<<n>> : n \in -1 .. TOTAL_ANGS + 1}
BatchArgs == {<<>>} \cup {<<n>> : n \in -1 .. MaxBatch}
Args ==
  [test_api : BOOLEAN, reset : BOOLEAN, check : BOOLEAN, quick : BOOLEAN,
   ang : AngArgs, batch : BatchArgs]

\* The number of options given on a command line.
Given(a) ==
  Cardinality({o \in {"test_api", "reset", "check", "quick"} : a[o]})
  + (IF a.ang # <<>> THEN 1 ELSE 0) + (IF a.batch # <<>> THEN 1 ELSE 0)

\* The command lines the model runs: every branch of main() is taken with
\* every value of the options it reads by a command line of at most two
\* options, and every pair of options is tried together.
CommandLines == {a \in Args : Given(a) <= 2}

\* Python's truth value of an optional int: None and 0 are false.
Truthy(opt) == opt # <<>> /\ opt[1] # 0

\* ------------------------------------------------------------ state
VARIABLES
  progressFile,     \* progress.json
  outputFiles,      \* the paths in output/ whose write completed
  pc,               \* where each process is in main()/process_ang()
  mode,             \* "single", "batch" or "default" once main() dispatched
  ang_number,       \* process_ang's ang_number
  update_progress,  \* process_ang's update_progress
  quick_mode,       \* process_ang's quick_mode
  batch,            \* args.batch of a batch run
  i,                \* the batch loop's i
  batchStart,       \* the first id a batch run selected (0: none yet)
  progress,         \* the dict mark_ang_as_processed holds between load and save
  result,           \* what the last process_ang call ended with
  failStage,        \* the step at which it failed
  exitStatus,       \* how the process ended
  trace,            \* the steps the current process_ang call has executed
  fetchOutcome,     \* how the fetch of the current process_ang call ended
  genOutcome,       \* how its generation request ended
  apiOp, apiArg, apiRet,  \* the storage harness: last call, its argument, its result
  apiPrev           \* the call before it

disk == <<progressFile, outputFiles>>
locals == <<mode, ang_number, update_progress, quick_mode, batch, i, batchStart, progress>>
outcome == <<result, failStage, exitStatus, trace, fetchOutcome, genOutcome>>
api == <<apiOp, apiArg, apiRet, apiPrev>>
vars == <<progressFile, outputFiles, pc, mode, ang_number, update_progress,
          quick_mode, batch, i, batchStart, progress, result, failStage,
          exitStatus, trace, fetchOutcome, genOutcome,
          apiOp, apiArg, apiRet, apiPrev>>

ProcInit ==
  /\ pc = [p \in Procs |-> "idle"]
  /\ mode = [p \in Procs |-> "none"]
  /\ ang_number = [p \in Procs |-> 0]
  /\ update_progress = [p \in Procs |-> FALSE]
  /\ quick_mode = [p \in Procs |-> FALSE]
  /\ batch = [p \in Procs |-> 0]
  /\ i = [p \in Procs |-> 0]
  /\ batchStart = [p \in Procs |-> 0]
  /\ progress = [p \in Procs |-> <<>>]
  /\ result = [p \in Procs |-> "none"]
  /\ failStage = [p \in Procs |-> "none"]
  /\ exitStatus = [p \in Procs |-> "none"]
  /\ trace = [p \in Procs |-> <<>>]
  /\ fetchOutcome = [p \in Procs |-> "none"]
  /\ genOutcome = [p \in Procs |-> "none"]

ApiInit == apiOp = "none" /\ apiArg = 0 /\ apiRet = Raised /\ apiPrev = "none"

\* A first run: no progress file, an empty output directory.
Init ==
  /\ progressFile = AbsentFile
  /\ outputFiles = {}
  /\ ProcInit
  /\ ApiInit

\* ------------------------------------------------------------ main.py
\* A process that is not running: main() can be started.
Idle(p) == pc[p] = "idle"

\* The locals of a fresh main().
Fresh(p, m, k, upd, quick, n) ==
  /\ mode' = [mode EXCEPT ![p] = m]
  /\ ang_number' = [ang_number EXCEPT ![p] = k]
  /\ update_progress' = [update_progress EXCEPT ![p] = upd]
  /\ quick_mode' = [quick_mode EXCEPT ![p] = quick]
  /\ batch' = [batch EXCEPT ![p] = n]
  /\ i' = [i EXCEPT ![p] = 0]
  /\ batchStart' = [batchStart EXCEPT ![p] = 0]
  /\ progress' = [progress EXCEPT ![p] = <<>>]
  /\ result' = [result EXCEPT ![p] = "none"]
  /\ failStage' = [failStage EXCEPT ![p] = "none"]
  /\ trace' = [trace EXCEPT ![p] = <<>>]
  /\ fetchOutcome' = [fetchOutcome EXCEPT ![p] = "none"]
  /\ genOutcome' = [genOutcome EXCEPT ![p] = "none"]

\* main() ends: by return or by falling off its end ("zero"), by
\* sys.exit(1) or an exception nobody catches ("nonzero").
Exit(p, status) ==
  /\ pc' = [pc EXCEPT ![p] = "idle"]
  /\ exitStatus' = [exitStatus EXCEPT ![p] = status]

\* The branch main() takes for a command line, in the order of its tests.
main_branch(a, ollama_up) ==
  IF a.test_api THEN "test_api"
  ELSE IF a.reset THEN "reset"
  ELSE IF ~ollama_up THEN "ollama_down"
  ELSE IF a.check THEN "check"
  ELSE IF Truthy(a.ang) THEN
    IF a.ang[1] < 1 \/ a.ang[1] > TOTAL_ANGS THEN "invalid_ang" ELSE "single"
  ELSE IF Truthy(a.batch) THEN "batch"
  ELSE "default"

Start(p, next) ==
  /\ pc' = [pc EXCEPT ![p] = next]
  /\ exitStatus' = [exitStatus EXCEPT ![p] = "running"]

\* main() called with the command line a, from its start to the first step
\* of the branch it takes.  Nothing before the branch reads or writes the
\* disk, except reset_progress.
main(p, a, ollama_up) ==
  /\ LET branch == main_branch(a, ollama_up)
         next_ang == get_next_ang(progressFile)
     IN
     CASE branch = "test_api" ->
            \* get_ang(1), a message, return
            /\ Fresh(p, branch, 0, FALSE, FALSE, 0)
            /\ Exit(p, "zero")
            /\ UNCHANGED progressFile
       [] branch = "reset" ->
            /\ Fresh(p, branch, 0, FALSE, FALSE, 0)
            /\ LET r == reset_progress(progressFile) IN
                 /\ progressFile' = r.file
                 /\ Exit(p, IF r.raised THEN "nonzero" ELSE "zero")
       [] branch = "ollama_down" ->
            \* sys.exit(1)
            /\ Fresh(p, branch, 0, FALSE, FALSE, 0)
            /\ Exit(p, "nonzero")
            /\ UNCHANGED progressFile
       [] branch = "check" ->
            /\ Fresh(p, branch, 0, FALSE, FALSE, 0)
            /\ Exit(p, "zero")
            /\ UNCHANGED progressFile
       [] branch = "invalid_ang" ->
            \* sys.exit(1)
            /\ Fresh(p, branch, a.ang[1], FALSE, a.quick, 0)
            /\ Exit(p, "nonzero")
            /\ UNCHANGED progressFile
       [] branch = "single" ->
            \* process_ang(args.ang, update_progress=False, ...)
            /\ Fresh(p, branch, a.ang[1], FALSE, a.quick, 0)
            /\ Start(p, "fetch")
            /\ UNCHANGED progressFile
       [] branch = "batch" ->
            /\ Fresh(p, branch, 0, TRUE, a.quick, a.batch[1])
            /\ Start(p, "batch_next")
            /\ UNCHANGED progressFile
       [] branch = "default" ->
            \* get_next_ang(), then return on None, or
            \* process_ang(next_ang, update_progress=True, ...)
            /\ UNCHANGED progressFile
            /\ IF next_ang.raised THEN
                 /\ Fresh(p, branch, 0, TRUE, a.quick, 0)
                 /\ Exit(p, "nonzero")
               ELSE IF next_ang.value = <<>> THEN
                 /\ Fresh(p, branch, 0, TRUE, a.quick, 0)
                 /\ Exit(p, "zero")
               ELSE
                 /\ Fresh(p, branch, next_ang.value[1], TRUE, a.quick, 0)
                 /\ Start(p, "fetch")
  /\ UNCHANGED <<outputFiles, api>>

\* The process is started with any command line, Ollama running or not.
Main(p) ==
  /\ Idle(p)
  /\ \E a \in CommandLines, ollama_up \in BOOLEAN : main(p, a, ollama_up)

\* One turn of for i in range(args.batch): get_next_ang(), then
\* process_ang(next_ang, update_progress=True, ...), or the loop ends.
BatchNext(p) ==
  /\ pc[p] = "batch_next"
  /\ LET next_ang == get_next_ang(progressFile) IN
       IF ~(i[p] < batch[p]) THEN
         /\ Exit(p, "zero")
         /\ UNCHANGED <<ang_number, batchStart, trace, result, failStage,
                        fetchOutcome, genOutcome>>
       ELSE IF next_ang.raised THEN
         /\ Exit(p, "nonzero")
         /\ result' = [result EXCEPT ![p] = "raised"]
         /\ failStage' = [failStage EXCEPT ![p] = "select"]
         /\ UNCHANGED <<ang_number, batchStart, trace, fetchOutcome, genOutcome>>
       ELSE IF next_ang.value = <<>> THEN
         /\ Exit(p, "zero")
         /\ UNCHANGED <<ang_number, batchStart, trace, result, failStage,
                        fetchOutcome, genOutcome>>
       ELSE
         /\ pc' = [pc EXCEPT ![p] = "fetch"]
         /\ ang_number' = [ang_number EXCEPT ![p] = next_ang.value[1]]
         /\ batchStart' = [batchStart EXCEPT ![p] =
                             IF i[p] = 0 THEN next_ang.value[1] ELSE @]
         /\ trace' = [trace EXCEPT ![p] = <<>>]
         /\ result' = [result EXCEPT ![p] = "none"]
         /\ fetchOutcome' = [fetchOutcome EXCEPT ![p] = "none"]
         /\ genOutcome' = [genOutcome EXCEPT ![p] = "none"]
         /\ UNCHANGED <<exitStatus, failStage>>
  /\ UNCHANGED <<disk, api, mode, update_progress, quick_mode, batch, i, progress>>

\* ------------------------------------------------------------ process_ang
Log(p, step) == trace' = [trace EXCEPT ![p] = Append(@, step)]

MutantReturnNoBreak(p, ok, stage) ==
  /\ result' = [result EXCEPT ![p] = IF ok THEN "true" ELSE "false"]
  /\ failStage' = [failStage EXCEPT ![p] = stage]
  /\ IF mode[p] = "batch"
     THEN /\ pc' = [pc EXCEPT ![p] = "batch_next"]
          /\ i' = [i EXCEPT ![p] = @ + 1]
          /\ UNCHANGED exitStatus
     ELSE /\ Exit(p, "zero")
          /\ UNCHANGED i

\* process_ang returns ok to main(): the batch loop goes on after True and
\* breaks after False; the other two modes fall through to the end of main().
Return(p, ok, stage) ==
  /\ result' = [result EXCEPT ![p] = IF ok THEN "true" ELSE "false"]
  /\ failStage' = [failStage EXCEPT ![p] = stage]
  /\ IF mode[p] = "batch" /\ ok
     THEN /\ pc' = [pc EXCEPT ![p] = "batch_next"]
          /\ i' = [i EXCEPT ![p] = @ + 1]
          /\ UNCHANGED exitStatus
     ELSE /\ Exit(p, "zero")
          /\ UNCHANGED i

\* An exception leaves process_ang and main(): nothing catches it.
Raise(p, stage) ==
  /\ result' = [result EXCEPT ![p] = "raised"]
  /\ failStage' = [failStage EXCEPT ![p] = stage]
  /\ Exit(p, "nonzero")
  /\ UNCHANGED i

Goto(p, next) ==
  /\ pc' = [pc EXCEPT ![p] = next]
  /\ UNCHANGED <<result, failStage, exitStatus, i>>

unit == <<mode, ang_number, update_progress, quick_mode, batch, batchStart>>

\* Step 1: gurbani_api.get_ang.  fetch_ang_data turns every exception into
\* None, and process_ang returns False on None.
MutantFetchNoRaiseForStatus(fo) == fo \in {"ok", "http_error"}

\* get_ang returns a page: the request succeeded with a 2xx status and a
\* JSON body.  Every except branch of fetch_ang_data returns None.
fetch_succeeded(fo) == fo = "ok"

\* The bodies the API answers a successful request with, as far as
\* process_ang tells them apart: one parse_ang_data returns a page for, and
\* one it raises on.
AnswerBodies == {PyDict(EmptyDict), PyDict([pageinfo |-> PyNone])}

\* get_ang calls parse_ang_data outside any try: what it raises leaves
\* get_ang and process_ang.
Fetch(p) ==
  /\ pc[p] = "fetch"
  /\ Log(p, "fetch")
  /\ \E fo \in FetchOutcomes, body \in AnswerBodies :
       /\ fetchOutcome' = [fetchOutcome EXCEPT ![p] = fo]
       /\ IF ~fetch_succeeded(fo) THEN Return(p, FALSE, "fetch")
          ELSE IF get_ang(ang_number[p], "ok", body).raised THEN Raise(p, "normalize")
          ELSE Goto(p, "generate")
  /\ UNCHANGED <<disk, api, unit, progress, genOutcome>>

\* Step 2, quick mode: ollama_client.generate_simple_meaning is not defined
\* in ollama_client.py, so the call raises AttributeError.
GenerateQuick(p) ==
  /\ pc[p] = "generate"
  /\ quick_mode[p]
  /\ Raise(p, "generate")
  /\ UNCHANGED <<disk, api, unit, progress, trace, fetchOutcome, genOutcome>>

\* Step 2, deep mode: generate_meaning_with_thinking returns the text, or
\* empty strings from each of its failure branches; process_ang returns
\* False when the text is empty.
MutantNoEmptyCheck(go) == go \in {"text", "empty"}

\* ai_response is truthy: only a response with extracted text gives a
\* non-empty full_response.
ai_response_nonempty(go) == go = "text"

Generate(p) ==
  /\ pc[p] = "generate"
  /\ ~quick_mode[p]
  /\ Log(p, "generate")
  /\ \E go \in GenOutcomes :
       /\ genOutcome' = [genOutcome EXCEPT ![p] = go]
       /\ IF ai_response_nonempty(go)
          THEN Goto(p, "format")
          ELSE Return(p, FALSE, "generate")
  /\ UNCHANGED <<disk, api, unit, progress, fetchOutcome>>

\* Step 3: formatter.format_to_html and format_to_text.
Format(p) ==
  /\ pc[p] = "format"
  /\ Log(p, "format")
  /\ Goto(p, "save_html")
  /\ UNCHANGED <<disk, api, unit, progress, fetchOutcome, genOutcome>>

MutantSaveHtmlIgnoreError(p) ==
  /\ pc[p] = "save_html"
  /\ \E ok \in BOOLEAN :
       IF ok
       THEN /\ outputFiles' = outputFiles \cup html_paths(ang_number[p])
            /\ Log(p, "html")
            /\ Goto(p, "save_text")
       ELSE /\ Goto(p, "save_text")
            /\ UNCHANGED <<outputFiles, trace>>
  /\ UNCHANGED <<progressFile, api, unit, progress, fetchOutcome, genOutcome>>

\* Step 4, first half of save_output: the HTML file.  A failing open or
\* write raises out of save_output and process_ang.
SaveHtml(p) ==
  /\ pc[p] = "save_html"
  /\ \E ok \in BOOLEAN :
       IF ok
       THEN /\ outputFiles' = outputFiles \cup html_paths(ang_number[p])
            /\ Log(p, "html")
            /\ Goto(p, "save_text")
       ELSE /\ Raise(p, "persist")
            /\ UNCHANGED <<outputFiles, trace>>
  /\ UNCHANGED <<progressFile, api, unit, progress, fetchOutcome, genOutcome>>

\* What follows save_output in process_ang: Step 5 when update_progress.
MutantAfterSaveAlwaysMark(upd) == "mark_load"

AfterSave(upd) == IF upd THEN "mark_load" ELSE "return"

MutantSaveTextIgnoreError(p) ==
  /\ pc[p] = "save_text"
  /\ \E ok \in BOOLEAN :
       /\ IF ok
          THEN outputFiles' = outputFiles \cup text_paths(ang_number[p])
          ELSE UNCHANGED outputFiles
       /\ Log(p, "text")
       /\ IF AfterSave(update_progress[p]) = "mark_load"
          THEN Goto(p, "mark_load")
          ELSE Return(p, TRUE, "none")
  /\ UNCHANGED <<progressFile, api, unit, progress, fetchOutcome, genOutcome>>

MutantSaveTextFinallyMark(p) ==
  /\ pc[p] = "save_text"
  /\ \E ok \in BOOLEAN :
       IF ok
       THEN /\ outputFiles' = outputFiles \cup text_paths(ang_number[p])
            /\ Log(p, "text")
            /\ IF AfterSave(update_progress[p]) = "mark_load"
               THEN Goto(p, "mark_load")
               ELSE Return(p, TRUE, "none")
            /\ UNCHANGED progressFile
       ELSE /\ Raise(p, "persist")
            /\ progressFile' =
                 IF update_progress[p]
                 THEN mark_ang_as_processed(progressFile, ang_number[p]).file
                 ELSE progressFile
            /\ UNCHANGED <<outputFiles, trace>>
  /\ UNCHANGED <<api, unit, progress, fetchOutcome, genOutcome>>

\* Step 4, second half of save_output: the text file; then if update_progress.
SaveText(p) ==
  /\ pc[p] = "save_text"
  /\ \E ok \in BOOLEAN :
       IF ok
       THEN /\ outputFiles' = outputFiles \cup text_paths(ang_number[p])
            /\ Log(p, "text")
            /\ IF AfterSave(update_progress[p]) = "mark_load"
               THEN Goto(p, "mark_load")
               ELSE Return(p, TRUE, "none")
       ELSE /\ Raise(p, "persist")
            /\ UNCHANGED <<outputFiles, trace>>
  /\ UNCHANGED <<progressFile, api, unit, progress, fetchOutcome, genOutcome>>

\* Step 5, mark_ang_as_processed: load_progress() and the four assignments.
MarkLoad(p) ==
  /\ pc[p] = "mark_load"
  /\ LET r == load_progress(progressFile) IN
       IF r.raised
       THEN /\ Raise(p, "advance")
            /\ UNCHANGED progress
       ELSE /\ progress' = [progress EXCEPT ![p] =
                               progress_update(r.value, ang_number[p])]
            /\ Goto(p, "mark_open")
  /\ UNCHANGED <<disk, api, unit, trace, fetchOutcome, genOutcome>>

\* save_progress: open(config.PROGRESS_FILE, 'w') truncates the file.
MarkOpen(p) ==
  /\ pc[p] = "mark_open"
  /\ progressFile' = save_progress_open
  /\ Goto(p, "mark_write")
  /\ UNCHANGED <<outputFiles, api, unit, progress, trace, fetchOutcome, genOutcome>>

\* save_progress: json.dump and close; mark_ang_as_processed and
\* process_ang return.
MarkWrite(p) ==
  /\ pc[p] = "mark_write"
  /\ progressFile' = save_progress_written(progress[p])
  /\ Log(p, "mark")
  /\ Return(p, TRUE, "none")
  /\ UNCHANGED <<outputFiles, api, unit, progress, fetchOutcome, genOutcome>>

\* The process is killed (or the machine stops) between two steps.
Crash(p) ==
  /\ pc[p] # "idle"
  /\ pc' = [pc EXCEPT ![p] = "idle"]
  /\ exitStatus' = [exitStatus EXCEPT ![p] = "killed"]
  /\ result' = [result EXCEPT ![p] = "killed"]
  /\ failStage' = [failStage EXCEPT ![p] = pc[p]]
  /\ UNCHANGED <<disk, api, unit, i, progress, trace, fetchOutcome, genOutcome>>

ProcNext(p) ==
  \/ Main(p)
  \/ BatchNext(p)
  \/ Fetch(p) \/ GenerateQuick(p) \/ Generate(p) \/ Format(p)
  \/ SaveHtml(p) \/ SaveText(p)
  \/ MarkLoad(p) \/ MarkOpen(p) \/ MarkWrite(p)
  \/ Crash(p)

\* Invocations one after another: a single process, started again and again.
Next == \E p \in Runners : ProcNext(p)

Spec == Init /\ [][Next]_vars

\* ------------------------------------------------------------ storage.py, called directly
\* The functions of storage.py called one after another with any arguments,
\* on a progress file that may hold anything.
HandWrittenProgress == [current_ang |-> 2]

StoreFiles ==
  {AbsentFile, InvalidJsonFile, NonObjectFile, UndecodableFile,
   ObjectFile(initial_progress), ObjectFile(HandWrittenProgress)}

InitStore ==
  /\ progressFile \in StoreFiles
  /\ outputFiles = {}
  /\ ProcInit
  /\ ApiInit

ApiLoad ==
  /\ apiOp' = "load_progress"
  /\ apiArg' = 0
  /\ apiPrev' = apiOp
  /\ apiRet' = load_progress(progressFile)
  /\ UNCHANGED <<disk, pc, locals, outcome>>

ApiGetNext ==
  /\ apiOp' = "get_next_ang"
  /\ apiArg' = 0
  /\ apiPrev' = apiOp
  /\ apiRet' = get_next_ang(progressFile)
  /\ UNCHANGED <<disk, pc, locals, outcome>>

ApiMark ==
  \E k \in 1 .. TOTAL_ANGS :
    LET r == mark_ang_as_processed(progressFile, k) IN
    /\ ~r.raised => r.file.data.total_processed <= MaxTotal
    /\ apiOp' = "mark_ang_as_processed"
    /\ apiArg' = k
    /\ apiPrev' = apiOp
    /\ apiRet' = [raised |-> r.raised]
    /\ progressFile' = r.file
    /\ UNCHANGED <<outputFiles, pc, locals, outcome>>

ApiReset ==
  LET r == reset_progress(progressFile) IN
  /\ apiOp' = "reset_progress"
  /\ apiArg' = 0
  /\ apiPrev' = apiOp
  /\ apiRet' = [raised |-> r.raised]
  /\ progressFile' = r.file
  /\ UNCHANGED <<outputFiles, pc, locals, outcome>>

\* save_output with both writes succeeding.
ApiSaveOutput ==
  \E k \in 1 .. TOTAL_ANGS :
    /\ apiOp' = "save_output"
    /\ apiArg' = k
    /\ apiPrev' = apiOp
    /\ apiRet' = Returned(html_paths(k) \cup text_paths(k))
    /\ outputFiles' = outputFiles \cup html_paths(k) \cup text_paths(k)
    /\ UNCHANGED <<progressFile, pc, locals, outcome>>

NextStore == ApiLoad \/ ApiGetNext \/ ApiMark \/ ApiReset \/ ApiSaveOutput

SpecStore == InitStore /\ [][NextStore]_vars

\* ------------------------------------------------------------ gurbani_api.py, called directly
\* The functions of gurbani_api.py applied to the bodies the BaniDB API may
\* answer with: any sub-field absent, null, empty, or of another shape.
MaxLines == 3

\* {key: v}
Field(key, v) == [k \in {key} |-> v]
\* A dict with the field absent, or holding one of the values.
Optional(key, values) == {EmptyDict} \cup {Field(key, v) : v \in values}

BoundedSeq(S, n) == UNION {[1 .. m -> S] : m \in 0 .. n}

\* The dicts with some of the keys, of which some hold their text and the
\* others nothing (null, or the empty string).
Populated(keys, texts) ==
  UNION {{[k \in ks |-> IF k \in populated THEN texts[k] ELSE empty] :
            populated \in SUBSET ks, empty \in {PyNone, PyStr("")}} :
         ks \in SUBSET keys}

\* "transliteration": a plain string, a dict by language, or anything else.
Transliterations ==
  {PyStr(""), PyStr("ik oankaar"), PyNone, PyList(<<>>), PyInt(7)}
  \cup {PyDict([english |-> e] @@ d) :
          e \in {PyNone, PyStr(""), PyStr("sat naam")},
          d \in Optional("en", {PyNone, PyStr(""), PyStr("sat nam")})}
  \cup {PyDict(d) : d \in Optional("en", {PyNone, PyStr(""), PyStr("sat nam")})}

\* "translation": a dict by language whose "en" is a dict by source, a
\* plain string, or anything else.
SourceTexts == [bdb |-> PyStr("One Creator"), ms |-> PyStr("There is but one God"),
                ssk |-> PyStr("The One")]
Sources == {"bdb", "ms", "ssk"}
EnglishSources == Populated(Sources, SourceTexts)
Translations ==
  {PyNone, PyStr("One Creator"), PyList(<<>>), PyDict(EmptyDict)}
  \cup {PyDict([en |-> v]) : v \in {PyNone, PyStr(""), PyStr("One Creator"), PyList(<<>>)}}
  \cup {PyDict([en |-> PyDict(d)]) : d \in EnglishSources}

\* A verse of the page as BaniDB documents it.
PlainVerse ==
  [verse |-> PyDict([gurmukhi |-> PyStr("<>"), unicode |-> PyStr("u0")]),
   transliteration |-> PyDict([english |-> PyStr("t0"), en |-> PyStr("t0")]),
   translation |-> PyDict([en |-> PyDict([bdb |-> PyStr("e0")])]),
   raag |-> PyDict([unicode |-> PyStr("r0"), english |-> PyStr("Raag 0")]),
   writer |-> PyDict([english |-> PyStr("Writer 0")])]

\* The verses the extract functions are applied to.
ExtractVerses ==
  {PyDict(f @@ [verse |-> PlainVerse.verse]) :
     f \in Optional("transliteration", Transliterations)}
  \cup {PyDict(f @@ [verse |-> PlainVerse.verse]) :
          f \in Optional("translation", Translations)}

\* Pages of up to MaxLines verses: verse n carries, or not, its script
\* ("u<n>"), its transliteration ("t<n>") and its translation ("e<n>").
TextVerse(n, has) ==
  PyDict(
    [verse |-> PyDict([unicode |-> PyStr(IF has.unicode THEN "u" \o ToString(n) ELSE "")]),
     translation |-> PyDict([en |-> PyDict(IF has.translation
                                            THEN [bdb |-> PyStr("e" \o ToString(n))]
                                            ELSE [bdb |-> PyNone])])]
    @@ (IF has.transliteration
        THEN [transliteration |-> PyDict([english |-> PyStr("t" \o ToString(n))])]
        ELSE EmptyDict))
Presence == [unicode : BOOLEAN, transliteration : BOOLEAN, translation : BOOLEAN]
TextPages ==
  {[n \in 1 .. Len(has) |-> TextVerse(n, has[n])] : has \in BoundedSeq(Presence, MaxLines)}

\* "raag" and "writer" of a verse.
RaagTexts == [unicode |-> PyStr("r1"), english |-> PyStr("Raag 1")]
Raags ==
  {PyNone, PyStr("Raag 1")}
  \cup {PyDict(d) : d \in Populated({"unicode", "english"}, RaagTexts)}
WriterTexts == [english |-> PyStr("Writer 1")]
Writers ==
  {PyNone, PyStr("Writer 1")}
  \cup {PyDict(d) : d \in Populated({"english"}, WriterTexts)}
MetaVerses ==
  {PyDict(r @@ w @@ [verse |-> PlainVerse.verse]) :
     r \in Optional("raag", Raags), w \in Optional("writer", Writers)}
MetaPages ==
  {<<m>> : m \in MetaVerses} \cup {<<m, PyDict(PlainVerse)>> : m \in MetaVerses}

\* Verses of another shape than a dict, or with "verse" of another shape.
ShapeVerses ==
  {PyNone, PyStr("verse"), PyDict(EmptyDict),
   PyDict([verse |-> PyNone]), PyDict([verse |-> PyStr("u0")])}
  \cup ExtractVerses
ShapePages ==
  {<<v>> : v \in ShapeVerses} \cup {<<PyDict(PlainVerse), v>> : v \in ShapeVerses}

\* "pageinfo" and "page" of a body.
PageInfos ==
  {PyNone, PyStr("1")}
  \cup {PyDict(a @@ b) :
          a \in Optional("pageno", {PyNone, PyInt(0)} \cup {PyInt(n) : n \in 1 .. TOTAL_ANGS}),
          b \in Optional("page", {PyInt(TOTAL_ANGS + 1)})}
Pages ==
  {PyNone, PyStr("page"), PyInt(0), PyDict(EmptyDict), PyList(<<>>),
   PyList(<<PyDict(PlainVerse)>>)}

\* The bodies of the answers: anything json decodes.
SmallBodies ==
  {PyNone, PyList(<<>>), PyStr("ok")}
  \cup {PyDict(a @@ b) : a \in Optional("pageinfo", PageInfos), b \in Optional("page", Pages)}
VerseBodies ==
  {PyDict([pageinfo |-> PyDict([pageno |-> PyInt(STARTING_ANG)]), page |-> PyList(p)]) :
     p \in TextPages \cup MetaPages \cup ShapePages}

\* The calls made: get_ang(ang_number) with the request ending as fo and
\* answering body, and the extract functions on a verse.
GetAngCalls ==
  {[ang_number |-> k, fo |-> fo, body |-> b] :
     k \in 1 .. TOTAL_ANGS, fo \in FetchOutcomes, b \in SmallBodies}
  \cup {[ang_number |-> TOTAL_ANGS, fo |-> "ok", body |-> b] : b \in VerseBodies}
ExtractCalls == {[verse |-> v] : v \in ExtractVerses}

InitGurbani ==
  /\ progressFile = AbsentFile
  /\ outputFiles = {}
  /\ ProcInit
  /\ apiOp = "none" /\ apiPrev = "none" /\ apiRet = Raised
  /\ apiArg \in GetAngCalls \cup ExtractCalls

ApiExtractTransliteration ==
  /\ "verse" \in DOMAIN apiArg
  /\ apiOp' = "extract_transliteration"
  /\ apiPrev' = apiOp
  /\ apiRet' = Returned(extract_transliteration(apiArg.verse))
  /\ UNCHANGED <<apiArg, disk, pc, locals, outcome>>

ApiExtractTranslation ==
  /\ "verse" \in DOMAIN apiArg
  /\ apiOp' = "extract_translation"
  /\ apiPrev' = apiOp
  /\ apiRet' = extract_translation(apiArg.verse)
  /\ UNCHANGED <<apiArg, disk, pc, locals, outcome>>

\* parse_ang_data on a decoded body as it is.
ApiParseAngData ==
  /\ "body" \in DOMAIN apiArg
  /\ apiArg.body.t = "dict"
  /\ apiOp' = "parse_ang_data"
  /\ apiPrev' = apiOp
  /\ apiRet' = parse_ang_data(apiArg.body)
  /\ UNCHANGED <<apiArg, disk, pc, locals, outcome>>

ApiGetAng ==
  /\ "body" \in DOMAIN apiArg
  /\ apiOp' = "get_ang"
  /\ apiPrev' = apiOp
  /\ apiRet' = get_ang(apiArg.ang_number, apiArg.fo, apiArg.body)
  /\ UNCHANGED <<apiArg, disk, pc, locals, outcome>>

NextGurbani ==
  ApiExtractTransliteration \/ ApiExtractTranslation \/ ApiParseAngData \/ ApiGetAng

SpecGurbani == InitGurbani /\ [][NextGurbani]_vars

\* ------------------------------------------------------------ ollama_client.py, called directly
\* The functions of ollama_client.py applied to the answers a generation
\* server may give: "thinking" and "response" absent, null, empty or text,
\* and each alternative field absent, an empty or non-empty string, or a
\* mapping without "content" or with an empty or non-empty one.
Unpopulated == {PyNone, PyStr("")}
Thinkings == Optional("thinking", Unpopulated \cup {PyStr("trace")})
Responses == Optional("response", Unpopulated \cup {PyStr("answer")})
Durations == Optional("total_duration", {PyInt(3), PyNone})
DoneReasons == Optional("done_reason", {PyStr("stop"), PyStr("length")})

AlternativeValues(field) ==
  {PyStr(""), PyStr(field \o " text"),
   PyDict([role |-> PyStr("assistant")]),
   PyDict([content |-> PyStr("")]),
   PyDict([content |-> PyStr(field \o " content")])}
AlternativeDicts ==
  UNION {{d \in [fields -> UNION {AlternativeValues(f) : f \in fields}] :
            \A f \in fields : d[f] \in AlternativeValues(f)} :
         fields \in SUBSET Range(AlternativeFields)}

\* Answers with thinking and response of every kind, and answers with
\* neither populated and alternative fields of every kind.
MainResults ==
  {PyDict(t @@ r @@ d @@ s @@ a) :
     t \in Thinkings, r \in Responses, d \in Durations, s \in DoneReasons,
     a \in {EmptyDict, [content |-> PyStr("content text")]}}
AlternativeResults ==
  {PyDict(a) : a \in AlternativeDicts}
  \cup {PyDict(u @@ [message |-> m, generated_text |-> PyStr("generated_text text")]) :
          u \in {[thinking |-> PyStr(""), response |-> PyStr("")],
                 [thinking |-> PyNone, response |-> PyNone]},
          m \in AlternativeValues("message") \cup {PyNone, PyDict([content |-> PyNone])}}

\* How the POST ends before the body is looked at.
RequestOutcomes == {"ok"} \cup (GenOutcomes \ {"text", "empty"})

GenerateCalls ==
  {[go |-> go, result |-> r] : go \in RequestOutcomes, r \in MainResults}
  \cup {[go |-> "ok", result |-> r] : r \in AlternativeResults \cup {PyNone, PyList(<<>>)}}

InitOllama ==
  /\ progressFile = AbsentFile
  /\ outputFiles = {}
  /\ ProcInit
  /\ apiOp = "none" /\ apiPrev = "none" /\ apiRet = Raised
  /\ apiArg \in GenerateCalls

ApiExtractResponse ==
  /\ apiArg.result.t = "dict"
  /\ apiOp' = "extract_response_from_thinking_model"
  /\ apiPrev' = apiOp
  /\ apiRet' = Returned(extract_response_from_thinking_model(apiArg.result))
  /\ UNCHANGED <<apiArg, disk, pc, locals, outcome>>

\* The call, with what it returns, what it leaves in debug_response.json
\* and whether it printed the token limit warning.
ApiGenerate ==
  /\ apiOp' = "generate_meaning_with_thinking"
  /\ apiPrev' = apiOp
  /\ apiRet' = [raised |-> FALSE,
                value |-> generate_meaning_with_thinking(apiArg.go, apiArg.result),
                debug |-> debug_response(apiArg.go, apiArg.result),
                warned |-> token_limit_warning(apiArg.go, apiArg.result)]
  /\ UNCHANGED <<apiArg, disk, pc, locals, outcome>>

NextOllama == ApiExtractResponse \/ ApiGenerate

SpecOllama == InitOllama /\ [][NextOllama]_vars

\* ------------------------------------------------------------ main(), called once
\* One invocation of the program with a given command line, on a first run
\* or after Ang 1 was processed, followed to its end.
StartDisks ==
  {[progress |-> AbsentFile, outputs |-> {}],
   [progress |-> mark_ang_as_processed(AbsentFile, STARTING_ANG).file,
    outputs |-> html_paths(STARTING_ANG) \cup text_paths(STARTING_ANG)]}

Invocations == [args : CommandLines, ollama_up : BOOLEAN, disk : StartDisks]

InitCommand ==
  /\ apiArg \in Invocations
  /\ progressFile = apiArg.disk.progress
  /\ outputFiles = apiArg.disk.outputs
  /\ ProcInit
  /\ apiOp = "none" /\ apiPrev = "none" /\ apiRet = Raised

\* main() with the command line of the invocation.
MainOnce(p) ==
  /\ Idle(p) /\ exitStatus[p] = "none"
  /\ main(p, apiArg.args, apiArg.ollama_up)

NextCommand ==
  \E p \in Runners :
    \/ MainOnce(p)
    \/ BatchNext(p)
    \/ Fetch(p) \/ GenerateQuick(p) \/ Generate(p) \/ Format(p)
    \/ SaveHtml(p) \/ SaveText(p)
    \/ MarkLoad(p) \/ MarkOpen(p) \/ MarkWrite(p)

SpecCommand == InitCommand /\ [][NextCommand]_vars

\* ------------------------------------------------------------ two invocations at once
\* python main.py started twice, without options and with Ollama running,
\* the steps of the two processes interleaved in any order on the same
\* progress.json and output directory.  Nothing in storage.py locks a file.
NoOptions ==
  [test_api |-> FALSE, reset |-> FALSE, check |-> FALSE, quick |-> FALSE,
   ang |-> <<>>, batch |-> <<>>]

InitConcurrent ==
  /\ apiArg \in [args : {NoOptions}, ollama_up : {TRUE}, disk : StartDisks]
  /\ progressFile = apiArg.disk.progress
  /\ outputFiles = apiArg.disk.outputs
  /\ ProcInit
  /\ apiOp = "none" /\ apiPrev = "none" /\ apiRet = Raised

NextConcurrent ==
  \E p \in Procs :
    \/ MainOnce(p)
    \/ Fetch(p) \/ Generate(p) \/ Format(p)
    \/ SaveHtml(p) \/ SaveText(p)
    \/ MarkLoad(p) \/ MarkOpen(p) \/ MarkWrite(p)

SpecConcurrent == InitConcurrent /\ [][NextConcurrent]_vars

\* ------------------------------------------------------------ properties of the pipeline
\* The current_ang a load_progress() of the file returns.
LoadedCurrentAng(file) ==
  Get(load_progress(file).value, "current_ang", STARTING_ANG)

\* Both artifacts of Ang k are in the output directory.
BothWritten(k) ==
  {OutputPath(k, "html"), OutputPath(k, "txt")} \subseteq outputFiles

InMark(p) == pc[p] \in {"mark_load", "mark_open", "mark_write"}

\* The id the next default-mode run selects is k.
NextRunSelects(k) == get_next_ang(progressFile) = Returned(<<k>>)

FetchFailures == FetchOutcomes \ {"ok"}
GenFailures == GenOutcomes \ {"text"}

\* C1: mark_ang_as_processed(k) runs only in a call with update_progress,
\* after fetch, generate, format and both writes of save_output, with both
\* files of k on disk; and whenever progress.json records last_ang_done = k
\* both files of k are in the output directory.
C1_SavedBeforeMarked ==
  /\ \A p \in Procs :
       InMark(p) \/ "mark" \in Range(trace[p]) =>
         /\ update_progress[p]
         /\ SubSeq(trace[p], 1, 5) = <<"fetch", "generate", "format", "html", "text">>
         /\ BothWritten(ang_number[p])
  /\ progressFile.kind = "object" /\ "last_ang_done" \in DOMAIN progressFile.data =>
       BothWritten(progressFile.data.last_ang_done)

\* Ang 2 has been marked as processed by a run that has just returned.
C1_Witness ==
  /\ progressFile.kind = "object"
  /\ "last_ang_done" \in DOMAIN progressFile.data
  /\ progressFile.data.last_ang_done = 2
  /\ \E p \in Procs : "mark" \in Range(trace[p]) /\ ang_number[p] = 2

\* C2: when the generation request of Ang k ends in a timeout, a lost
\* connection, another error or an empty text, process_ang returns False
\* having executed nothing after the request: no format, no write, no mark;
\* and in a run that updates progress the next run selects k again.
C2_GenerationFailureStops ==
  \A p \in Procs :
    genOutcome[p] \in GenFailures =>
      /\ pc[p] = "idle"
      /\ result[p] = "false" /\ failStage[p] = "generate"
      /\ trace[p] = <<"fetch", "generate">>
      /\ update_progress[p] => NextRunSelects(ang_number[p])

\* An empty generation for Ang 2 in a run that updates progress.
C2_Witness ==
  \E p \in Procs :
    /\ genOutcome[p] = "empty" /\ update_progress[p]
    /\ ang_number[p] = 2 /\ BothWritten(1) /\ ~BothWritten(2)

\* C3: when the fetch of Ang k fails, process_ang returns False having
\* executed nothing else: no generation request, no write, no mark; and in
\* a run that updates progress the next run selects k again.
C3_FetchFailureStops ==
  \A p \in Procs :
    fetchOutcome[p] \in FetchFailures =>
      /\ pc[p] = "idle"
      /\ result[p] = "false" /\ failStage[p] = "fetch"
      /\ trace[p] = <<"fetch">>
      /\ genOutcome[p] = "none"
      /\ update_progress[p] => NextRunSelects(ang_number[p])

\* An HTTP error for Ang 2 in a run that updates progress.
C3_Witness ==
  \E p \in Procs :
    /\ fetchOutcome[p] = "http_error" /\ update_progress[p]
    /\ ang_number[p] = 2 /\ ~BothWritten(2)

\* C4: when a write of save_output fails for Ang k, the call ends at the
\* persisting stage by the exception, mark_ang_as_processed(k) is not
\* executed, and in a run that updates progress current_ang is still k.
C4_PersistFailureDoesNotAdvance ==
  \A p \in Procs :
    failStage[p] = "persist" =>
      /\ pc[p] = "idle"
      /\ result[p] = "raised"
      /\ "mark" \notin Range(trace[p])
      /\ update_progress[p] =>
           /\ LoadedCurrentAng(progressFile) = ang_number[p]
           /\ NextRunSelects(ang_number[p])

\* The text write of Ang 2 failed after its HTML file was written.
C4_Witness ==
  \E p \in Procs :
    /\ failStage[p] = "persist" /\ update_progress[p]
    /\ ang_number[p] = 2
    /\ OutputPath(2, "html") \in outputFiles
    /\ OutputPath(2, "txt") \notin outputFiles

\* C5: when a unit of a batch run that started at id c fails after j
\* successful units, it is the unit of id c + j, the run has ended, the
\* ids c .. c+j-1 have both files, and current_ang is c + j.
C5_BatchFailFast ==
  \A p \in Procs :
    mode[p] = "batch" /\ result[p] \in {"false", "raised"} /\ batchStart[p] # 0 =>
      /\ pc[p] = "idle"
      /\ i[p] < batch[p]
      /\ ang_number[p] = batchStart[p] + i[p]
      /\ \A k \in batchStart[p] .. ang_number[p] - 1 : BothWritten(k)
      /\ LoadedCurrentAng(progressFile) = batchStart[p] + i[p]

\* A batch that started at Ang 1 failed at its second unit.
C5_Witness ==
  \E p \in Procs :
    /\ mode[p] = "batch" /\ result[p] = "false"
    /\ batchStart[p] = 1 /\ i[p] = 1 /\ ang_number[p] = 2
    /\ BothWritten(1) /\ ~BothWritten(2)

\* C6: current_ang never passes an id whose two files were not both
\* written; and after a process was killed in the unit of Ang k before its
\* progress write completed, the next default-mode run selects an id <= k.
C6_NeverSkips ==
  /\ \A k \in 1 .. LoadedCurrentAng(progressFile) - 1 : BothWritten(k)
  /\ \A p \in Procs :
       /\ exitStatus[p] = "killed" /\ update_progress[p]
       /\ ang_number[p] # 0 /\ "mark" \notin Range(trace[p])
       => LET next_ang == get_next_ang(progressFile) IN
          /\ ~next_ang.raised
          /\ next_ang.value # <<>>
          /\ next_ang.value[1] <= ang_number[p]

\* A process was killed between the truncation of progress.json and its
\* rewrite, in the unit of Ang 2.
C6_Witness ==
  \E p \in Procs :
    /\ exitStatus[p] = "killed" /\ failStage[p] = "mark_write"
    /\ ang_number[p] = 2
    /\ progressFile = InvalidJsonFile

\* ------------------------------------------------------------ properties of the progress store
MarkSucceeded == apiOp = "mark_ang_as_processed" /\ ~apiRet.raised

\* C7 as claimed, for the second and later calls of a sequence: a successful
\* mark_ang_as_processed(k) that follows a successful one, whatever k is,
\* leaves a current_ang strictly greater than the one the call before left.
C7_AnyArgumentIncreases ==
  [][MarkSucceeded /\ MarkSucceeded' =>
       LoadedCurrentAng(progressFile') > LoadedCurrentAng(progressFile)]_vars

\* C7 amended: a successful mark_ang_as_processed(k) whose k is at least the
\* current_ang loaded before the call (the k of every default and batch run)
\* leaves a strictly greater current_ang; for any k it leaves k + 1.
C7_ForwardArgumentIncreases ==
  [][MarkSucceeded' =>
       /\ LoadedCurrentAng(progressFile') = apiArg' + 1
       /\ apiArg' >= LoadedCurrentAng(progressFile) =>
            LoadedCurrentAng(progressFile') > LoadedCurrentAng(progressFile)]_vars

\* A forward call has acted: mark(3) on a store that was at 2 or below.
C7_Witness ==
  /\ MarkSucceeded /\ apiArg = 3
  /\ LoadedCurrentAng(progressFile) = 4
  /\ progressFile.data.total_processed = 2

\* C8: a successful mark_ang_as_processed(k) on the loaded state s persists
\* current_ang = k + 1, last_ang_done = k, total_processed =
\* s.total_processed + 1 (0 when s has no such key) and a last_processed
\* timestamp, so that current_ang = last_ang_done + 1 on disk.
C8_AdvancePostcondition ==
  [][MarkSucceeded' =>
       LET s == load_progress(progressFile).value
           d == progressFile'.data
       IN /\ progressFile'.kind = "object"
          /\ d.current_ang = apiArg' + 1
          /\ d.last_ang_done = apiArg'
          /\ d.total_processed =
               (IF "total_processed" \in DOMAIN s THEN s.total_processed ELSE 0) + 1
          /\ d.last_processed = "ts"
          /\ d.current_ang = d.last_ang_done + 1
          /\ \A key \in DOMAIN s \ {"current_ang", "last_ang_done",
                                       "total_processed", "last_processed"} :
               key \in DOMAIN d /\ d[key] = s[key]]_vars

\* An advance on a record without a total_processed key has acted.
C8_Witness ==
  /\ MarkSucceeded
  /\ "started_at" \notin DOMAIN progressFile.data
  /\ progressFile.data.total_processed = 1

\* C9 as claimed: on an absent file and on every file that does not hold a
\* progress record, load_progress returns the initial state, and neither
\* load_progress nor get_next_ang raises.
C9_CorruptionNeverRaises ==
  progressFile.kind # "object" =>
    /\ apiOp = "load_progress" =>
         ~apiRet.raised /\ apiRet.value = initial_progress
    /\ apiOp = "get_next_ang" =>
         ~apiRet.raised /\ apiRet.value = <<STARTING_ANG>>

\* C10: reset_progress never raises and leaves no progress file, on an
\* absent file it changes nothing, a second reset changes nothing, and
\* load_progress after it returns the initial state.
C10_ResetIdempotent ==
  /\ [](apiOp = "reset_progress" =>
          /\ ~apiRet.raised
          /\ progressFile = AbsentFile
          /\ load_progress(progressFile) = Returned(initial_progress)
          /\ reset_progress(progressFile) = [raised |-> FALSE, file |-> progressFile])
  /\ [][apiOp' = "reset_progress" /\ progressFile = AbsentFile =>
          progressFile' = progressFile /\ outputFiles' = outputFiles]_vars

\* A second reset in a row has acted.
C10_Witness ==
  /\ apiPrev = "reset_progress"
  /\ apiOp = "reset_progress" /\ ~apiRet.raised
  /\ progressFile = AbsentFile

\* The progress file records that the last Ang has been processed.
Exhausted ==
  /\ progressFile.kind = "object"
  /\ Get(progressFile.data, "last_ang_done", 0) = TOTAL_ANGS
  /\ LoadedCurrentAng(progressFile) > TOTAL_ANGS

\* Process p selects the next Ang in this step: main() in default mode, or
\* a turn of the batch loop.
Selects(p) ==
  \/ pc[p] = "idle" /\ mode'[p] = "default" /\ exitStatus'[p] # "none"
  \/ pc[p] = "batch_next" /\ i[p] < batch[p] /\ exitStatus'[p] # "killed"

\* C11: a default-mode run and each turn of a batch run process the
\* persisted current_ang when it is <= TOTAL_ANGS, and process nothing and
\* end normally when it is > TOTAL_ANGS; once the last Ang has been
\* processed, no step of a default-mode or batch run processes a page or
\* changes progress.json or the output directory.
C11_NextAngOrExhausted ==
  [][\A p \in Runners :
       LET current_ang == LoadedCurrentAng(progressFile) IN
       /\ Selects(p) /\ current_ang <= TOTAL_ANGS =>
            pc'[p] = "fetch" /\ ang_number'[p] = current_ang
       /\ Selects(p) /\ current_ang > TOTAL_ANGS =>
            /\ pc'[p] = "idle" /\ exitStatus'[p] = "zero"
            /\ trace'[p] \in {trace[p], <<>>}
       /\ Exhausted /\ mode'[p] \in {"default", "batch"} =>
            /\ pc'[p] \in {"idle", "batch_next"}
            /\ progressFile' = progressFile
            /\ outputFiles' = outputFiles]_vars

\* A default-mode run started after the last Ang was processed has ended
\* without processing anything.
C11_Witness ==
  /\ Exhausted
  /\ \E p \in Runners :
       /\ mode[p] = "default" /\ pc[p] = "idle"
       /\ exitStatus[p] = "zero" /\ result[p] = "none"

\* C12: no step of a run started with --ang k changes progress.json,
\* whether the unit succeeds or fails and for every k in 1..TOTAL_ANGS,
\* the current_ang included; and when the unit succeeded both files of k are in the
\* output directory.
C12_SingleNeverChangesProgress ==
  /\ [](\A p \in Runners :
          mode[p] = "single" =>
            /\ ang_number[p] \in 1 .. TOTAL_ANGS
            /\ ~update_progress[p]
            /\ "mark" \notin Range(trace[p])
            /\ result[p] = "true" => BothWritten(ang_number[p]))
  /\ [][\A p \in Runners :
          mode'[p] = "single" => progressFile' = progressFile]_vars

\* A --ang run of the very Ang the progress file points at has succeeded.
C12_Witness ==
  \E p \in Runners :
    /\ mode[p] = "single" /\ pc[p] = "idle" /\ result[p] = "true"
    /\ progressFile.kind = "object"
    /\ ang_number[p] = LoadedCurrentAng(progressFile)
    /\ BothWritten(ang_number[p])

\* ------------------------------------------------------------ properties of gurbani_api.py
\* The call made had its request answered with a JSON object.
FetchSucceeded ==
  /\ "body" \in DOMAIN apiArg
  /\ fetch_ang_data(apiArg.ang_number, apiArg.fo, apiArg.body) # PyNone

\* get_ang returned a page.
PageReturned == apiOp = "get_ang" /\ ~apiRet.raised /\ apiRet.value # PyNone

\* process_ang, after get_ang: if gurbani_data.get("angNumber", 0) == 0:
\* gurbani_data["angNumber"] = ang_number
ensure_ang_number(gurbani_data, requested) ==
  IF gurbani_data.angNumber = PyInt(0)
  THEN [gurbani_data EXCEPT !.angNumber = PyInt(requested)]
  ELSE gurbani_data

\* The Ang number format_to_html and format_to_text print.
shown_ang_number(gurbani_data) == gurbani_data.angNumber

\* The number a file name ang_NNNN reads as.
RECURSIVE Value(_)
Value(digits) ==
  IF digits = <<>> THEN 0
  ELSE 10 * Value(SubSeq(digits, 1, Len(digits) - 1)) + digits[Len(digits)]

\* Whenever get_ang(k) returns a page, its angNumber, the number the
\* documents show and the number in the file names are k.
IdFidelityOfReturnedPages ==
  PageReturned =>
    /\ apiRet.value.angNumber = PyInt(apiArg.ang_number)
    /\ shown_ang_number(ensure_ang_number(apiRet.value, apiArg.ang_number))
         = PyInt(apiArg.ang_number)
    /\ Value(base_filename(apiArg.ang_number)) = apiArg.ang_number

\* C13: for every requested id k and every body for which the fetch
\* succeeds, get_ang(k) returns a page whose angNumber is k, whatever the
\* body's pageinfo holds, and the documents and file names carry k.
C13_IdFidelity ==
  apiOp = "get_ang" /\ FetchSucceeded =>
    PageReturned /\ IdFidelityOfReturnedPages

\* A page as parse_ang_data documents it: every text a str, the verses a list.
WellTyped(page) ==
  /\ page.angNumber.t = "int"
  /\ page.metadata.raag.t = "str" /\ page.metadata.writer.t = "str"
  /\ page.mainVerse.unicode.t = "str" /\ page.mainVerse.gurmukhi.t = "str"
  /\ page.mainVerse.transliteration.t = "str"
  /\ page.mainVerse.translation.english.t = "str"

\* C14: parse_ang_data never raises, whatever sub-field of the body is
\* absent, null or of another shape, and returns a well-typed page; get_ang
\* returns None exactly when the fetch failed and never raises.
C14_NormalizationTotal ==
  /\ apiOp = "parse_ang_data" => ~apiRet.raised /\ WellTyped(apiRet.value)
  /\ apiOp = "get_ang" =>
       /\ ~apiRet.raised
       /\ apiRet.value = PyNone <=> ~FetchSucceeded

\* The "transliteration" field of the verse the call was made on.
TransliterationField == apiArg.verse.o["transliteration"]

SourcesOfCall == apiArg.verse.o["translation"].o["en"].o

\* The English translation of the verse is a mapping of sources.
HasSources ==
  /\ "verse" \in DOMAIN apiArg
  /\ "translation" \in DOMAIN apiArg.verse.o
  /\ apiArg.verse.o["translation"].t = "dict"
  /\ "en" \in DOMAIN apiArg.verse.o["translation"].o
  /\ apiArg.verse.o["translation"].o["en"].t = "dict"

\* The source holds text.
IsPopulated(source) ==
  source \in DOMAIN SourcesOfCall /\ Bool(SourcesOfCall[source])

\* C16: on a verse whose English translation is a mapping of sources,
\* extract_translation returns the text of the first populated source in the
\* order bdb, ms, ssk, and the empty string when none of them is populated.
C16_SourcePreference ==
  apiOp = "extract_translation" /\ HasSources =>
    /\ ~apiRet.raised
    /\ apiRet.value =
         IF IsPopulated("bdb") THEN SourcesOfCall["bdb"]
         ELSE IF IsPopulated("ms") THEN SourcesOfCall["ms"]
         ELSE IF IsPopulated("ssk") THEN SourcesOfCall["ssk"]
         ELSE PyStr("")

\* parse_ang_data or get_ang returned a page.
ParsedPage ==
  /\ apiOp \in {"parse_ang_data", "get_ang"}
  /\ ~apiRet.raised /\ apiRet.value # PyNone

\* The verses of the body the call was made on.
VersesOfCall ==
  LET page == dict_get(apiArg.body, "page", PyList(<<>>)) IN
  IF page.t = "list" THEN page.l ELSE <<>>

\* The value the verse carries for the tag under the first of the keys that
\* holds one, and "Unknown" when it carries none.
TagOrUnknown(verse, tag, keys) ==
  LET mapping == dict_get(verse, tag, PyDict(EmptyDict))
      holding == {n \in 1 .. Len(keys) :
                    keys[n] \in DOMAIN mapping.o /\ Bool(mapping.o[keys[n]])}
  IN IF holding = {} THEN PyStr("Unknown")
     ELSE mapping.o[keys[CHOOSE n \in holding : \A m \in holding : n <= m]]

\* C17: the page's raag and writer are those of the first verse, each is
\* "Unknown" whenever the first verse carries no value for it or the page has
\* no verses, and neither is ever empty or null.
C17_MetadataFromFirstVerse ==
  ParsedPage =>
    LET metadata == apiRet.value.metadata IN
    /\ metadata.raag.t = "str" /\ metadata.raag.s # ""
    /\ metadata.writer.t = "str" /\ metadata.writer.s # ""
    /\ metadata.raag =
         IF VersesOfCall = <<>> THEN PyStr("Unknown")
         ELSE TagOrUnknown(VersesOfCall[1], "raag", <<"unicode", "english">>)
    /\ metadata.writer =
         IF VersesOfCall = <<>> THEN PyStr("Unknown")
         ELSE TagOrUnknown(VersesOfCall[1], "writer", <<"english">>)

\* Of the values, one per verse, the texts: a verse whose value is no text
\* or the empty one is left out, the order is kept.
RECURSIVE Texts(_)
Texts(values) ==
  IF values = <<>> THEN <<>>
  ELSE (IF values[1].t = "str" /\ values[1].s # "" THEN <<values[1].s>> ELSE <<>>)
       \o Texts(Tail(values))

\* The texts, each but the last followed by a newline.
RECURSIVE NewlineJoined(_)
NewlineJoined(texts) ==
  IF texts = <<>> THEN ""
  ELSE IF Len(texts) = 1 THEN texts[1]
  ELSE texts[1] \o "\n" \o NewlineJoined(Tail(texts))

\* What each verse of the call carries as script, transliteration and
\* translation.
Scripts ==
  [n \in 1 .. Len(VersesOfCall) |->
     dict_get(dict_get(VersesOfCall[n], "verse", PyDict(EmptyDict)), "unicode", PyStr(""))]
TransliterationsOfCall ==
  [n \in 1 .. Len(VersesOfCall) |-> extract_transliteration(VersesOfCall[n])]
TranslationsOfCall ==
  [n \in 1 .. Len(VersesOfCall) |-> extract_translation(VersesOfCall[n]).value]

\* C18: the page parse_ang_data returns for a body with verses has as
\* combined transliteration the transliterations of the verses that have
\* one, in the order of the verses, joined by newlines, with nothing for a
\* verse that has none; and the same for the combined script and the combined
\* translation.
C18_CombinedFields ==
  ParsedPage =>
    LET mainVerse == apiRet.value.mainVerse IN
    /\ mainVerse.transliteration = PyStr(NewlineJoined(Texts(TransliterationsOfCall)))
    /\ mainVerse.unicode = PyStr(NewlineJoined(Texts(Scripts)))
    /\ mainVerse.gurmukhi = mainVerse.unicode
    /\ mainVerse.translation.english = PyStr(NewlineJoined(Texts(TranslationsOfCall)))

\* A page of three verses of which the first and the third have a
\* transliteration, and the second and third a script.
C18_Witness ==
  /\ ParsedPage
  /\ Len(VersesOfCall) = 3
  /\ apiRet.value.mainVerse.transliteration = PyStr("t1\nt3")
  /\ apiRet.value.mainVerse.unicode = PyStr("u2\nu3")
  /\ apiRet.value.mainVerse.translation.english = PyStr("e1\ne2\ne3")

\* ------------------------------------------------------------ properties of ollama_client.py
\* The answer of the call holds something under the field.
Holds(field) ==
  field \in DOMAIN apiArg.result.o /\ Bool(apiArg.result.o[field])

\* The text the claim gives for an answer with a trace or an answer text.
TraceAndAnswer ==
  LET thinking == apiArg.result.o["thinking"]
      response == apiArg.result.o["response"]
  IN
  IF Holds("thinking") /\ Holds("response")
  THEN PyStr(thinking.s \o "\n\n---\n\n" \o response.s)
  ELSE IF Holds("thinking") THEN thinking
  ELSE response

\* extract_response_from_thinking_model returns the trace, the answer, or
\* the trace, the divider and the answer.
ExtractionOfTraceAndAnswer ==
  /\ apiOp = "extract_response_from_thinking_model"
  /\ Holds("thinking") \/ Holds("response")
  => apiRet.value = TraceAndAnswer

\* C19: extract_response_from_thinking_model returns exactly the trace when
\* only "thinking" is populated, exactly the answer when only "response" is,
\* and the trace, a divider and the answer when both are; and
\* generate_meaning_with_thinking, its request answered, returns that text
\* as the generated text process_ang uses.
C19_GenerationExtraction ==
  /\ ExtractionOfTraceAndAnswer
  /\ /\ apiOp = "generate_meaning_with_thinking"
     /\ apiArg.go = "ok" /\ apiArg.result.t = "dict"
     /\ Holds("thinking") \/ Holds("response")
     => ai_response(apiRet.value) = TraceAndAnswer

\* The alternative field holds non-empty text: as a string, or as the
\* content entry of a mapping.
HoldsText(field) ==
  /\ field \in DOMAIN apiArg.result.o
  /\ LET value == apiArg.result.o[field] IN
       \/ value.t = "str" /\ value.s # ""
       \/ /\ value.t = "dict" /\ "content" \in DOMAIN value.o
          /\ value.o["content"].t = "str" /\ value.o["content"].s # ""

TextHeld(field) ==
  LET value == apiArg.result.o[field] IN
  IF value.t = "str" THEN value ELSE value.o["content"]

\* C20: with neither "thinking" nor "response" populated,
\* extract_response_from_thinking_model returns the text of the first of
\* content, text, output, message, generated_text that holds non-empty text,
\* and the empty string only when none of them does.
C20_AlternativeFields ==
  /\ apiOp = "extract_response_from_thinking_model"
  /\ ~Holds("thinking") /\ ~Holds("response")
  => LET holding == {n \in 1 .. Len(AlternativeFields) : HoldsText(AlternativeFields[n])} IN
     apiRet.value =
       IF holding = {} THEN PyStr("")
       ELSE TextHeld(AlternativeFields[CHOOSE n \in holding : \A m \in holding : n <= m])

\* The server answered the request of the call with a 200 status.
Answered == apiOp = "generate_meaning_with_thinking" /\ apiArg.go = "ok"

\* The answer holds no text: it is not a JSON object, or what
\* extract_response_from_thinking_model takes from it is not a non-empty
\* string.
NoTextInAnswer ==
  \/ apiArg.result.t # "dict"
  \/ LET text == extract_response_from_thinking_model(apiArg.result) IN
       ~(text.t = "str" /\ text.s # "")

\* An answer whose thinking, response and total_duration are each absent or
\* of the documented type, and from which the empty string is extracted, is
\* written to debug_response.json.
DebugOfEmptyString ==
  /\ Answered /\ apiArg.result.t = "dict"
  /\ dict_get(apiArg.result, "thinking", PyStr("")).t = "str"
  /\ dict_get(apiArg.result, "response", PyStr("")).t = "str"
  /\ dict_get(apiArg.result, "total_duration", PyInt(0)).t = "int"
  /\ extract_response_from_thinking_model(apiArg.result) = PyStr("")
  => apiRet.debug = <<apiArg.result>> /\ apiRet.value = empty_result

\* C21: whenever the server answers the request and the answer holds no
\* text, generate_meaning_with_thinking has written the raw answer to
\* debug_response.json when it returns its empty result.
C21_EmptyAnswerPreserved ==
  Answered /\ NoTextInAnswer
  => apiRet.debug = <<apiArg.result>> /\ apiRet.value = empty_result

\* The answer of the call states that the output limit was reached, and
\* holds text.
TruncatedWithText ==
  /\ Answered /\ apiArg.result.t = "dict"
  /\ hit_token_limit(apiArg.result)
  /\ ~NoTextInAnswer

\* The dict handed to the caller says that the text is truncated.
FlaggedTruncated(ai_result) ==
  IF "truncated" \in DOMAIN ai_result THEN ai_result["truncated"] = TRUE ELSE FALSE

\* A truncated answer whose thinking, response and total_duration are each
\* absent or of the documented type is returned with its text, after the
\* warning was printed.
TruncatedTextReturned ==
  /\ TruncatedWithText
  /\ dict_get(apiArg.result, "thinking", PyStr("")).t = "str"
  /\ dict_get(apiArg.result, "response", PyStr("")).t = "str"
  /\ dict_get(apiArg.result, "total_duration", PyInt(0)).t = "int"
  => /\ ai_response(apiRet.value) = extract_response_from_thinking_model(apiArg.result)
     /\ apiRet.warned /\ apiRet.debug = <<>>

\* C22: an answer whose done_reason is "length" and that holds text is
\* returned with that text, not as the empty result, and the result handed
\* to the caller is flagged as truncated.
C22_TruncatedReturnedAndFlagged ==
  TruncatedWithText
  => /\ ai_response(apiRet.value) = extract_response_from_thinking_model(apiArg.result)
     /\ FlaggedTruncated(apiRet.value)

\* ------------------------------------------------------------ properties of main()
\* The run of the process has ended by itself: by return, by sys.exit or by
\* an exception, not by being killed.
Exited(p) == exitStatus[p] \in {"zero", "nonzero"}

\* The connectivity pre-check of the run failed.
PreCheckFailed(p) == mode[p] = "ollama_down"

\* The runs that end non-zero: the pre-check failed, --ang was out of
\* range, or an exception left process_ang; every other run ends zero, a
\* failed fetch or generation among them.
ExitStatusByCause ==
  \A p \in Procs :
    Exited(p) =>
      (exitStatus[p] = "nonzero" <=>
         \/ PreCheckFailed(p)
         \/ mode[p] = "invalid_ang"
         \/ result[p] = "raised")

\* C23: a run ends non-zero when the connectivity pre-check failed, and zero
\* in every other case, the runs in which the unit failed at fetch,
\* generation, formatting or saving included.
C23_ExitStatus ==
  \A p \in Procs :
    Exited(p) => (exitStatus[p] = "nonzero" <=> PreCheckFailed(p))

\* ------------------------------------------------------------ properties of save_output
\* The files of the output directory that carry the id j in their name.
FilesOfId(j, files) == {f \in files : Value(f.base) = j}

\* The two files of id k: four digits that read as k, html and txt.
IsFilePairOf(k, files) ==
  /\ Cardinality(files) = 2
  /\ {f.ext : f \in files} = {"html", "txt"}
  /\ \A f \in files : Len(f.base) = 4 /\ Value(f.base) = k

\* Ids of one, two, three and four digits, up to the last Ang of the Granth.
IdsOfEveryWidth == {1, 9, 10, 99, 100, 999, 1000, 1430}

QuickAfterFetch(p) ==
  /\ quick_mode[p]
  /\ fetchOutcome[p] = "ok" /\ failStage[p] # "normalize"
  /\ "fetch" \in Range(trace[p])

\* C25: in a run with --quick whose fetch returned a page, a generation step
\* runs: the run does not end at the generation step by an exception, and
\* when it has ended by itself the step has been executed.
C25_QuickModeGenerates ==
  \A p \in Procs :
    QuickAfterFetch(p) =>
      /\ ~(result[p] = "raised" /\ failStage[p] = "generate")
      /\ Exited(p) => "generate" \in Range(trace[p])

\* ------------------------------------------------------------ properties of batch runs
Min(a, b) == IF a <= b THEN a ELSE b

\* p is in a batch run, or has ended one, in which no unit failed so far
\* and which was not killed.
BatchSucceeding(p) ==
  /\ mode[p] = "batch"
  /\ exitStatus[p] \in {"running", "zero"}
  /\ result[p] \in {"none", "true"}

\* progress.json records that the units before the i-th of the run of p are
\* done: their files are written, and the next id is the one of unit i.
UnitsBeforeDone(p) ==
  /\ LoadedCurrentAng(progressFile) = batchStart[p] + i[p]
  /\ \A k \in batchStart[p] .. batchStart[p] + i[p] - 1 : BothWritten(k)
  /\ i[p] > 0 =>
       /\ progressFile.kind = "object"
       /\ Get(progressFile.data, "last_ang_done", 0) = batchStart[p] + i[p] - 1

\* C26: in a batch run of n units that started at current_ang = c and in
\* which no unit fails, unit i (from 0) processes the id c + i, and its fetch
\* starts with the advance of every unit before it completed; the run ends
\* without error after min(n, TOTAL_ANGS + 1 - c) units, with current_ang =
\* min(c + n, TOTAL_ANGS + 1); started with no id left, it processes nothing.
C26_BatchSequential ==
  \A p \in Procs :
    BatchSucceeding(p) =>
      /\ pc[p] \in {"fetch", "generate", "format", "save_html", "save_text", "mark_load"} =>
           /\ i[p] < batch[p]
           /\ ang_number[p] = batchStart[p] + i[p]
           /\ ang_number[p] \in 1 .. TOTAL_ANGS
           /\ UnitsBeforeDone(p)
      /\ pc[p] = "batch_next" /\ i[p] > 0 => UnitsBeforeDone(p)
      /\ pc[p] = "idle" =>
           IF batchStart[p] = 0
           THEN /\ batch[p] >= 1 => LoadedCurrentAng(progressFile) > TOTAL_ANGS
                /\ i[p] = 0 /\ trace[p] = <<>>
           ELSE /\ i[p] = Min(batch[p], TOTAL_ANGS + 1 - batchStart[p])
                /\ UnitsBeforeDone(p)
                /\ LoadedCurrentAng(progressFile) =
                     Min(batchStart[p] + batch[p], TOTAL_ANGS + 1)

\* A batch of 2 that started at the last Ang stopped after one unit.
C26_Witness ==
  \E p \in Procs :
    /\ BatchSucceeding(p) /\ pc[p] = "idle" /\ exitStatus[p] = "zero"
    /\ batch[p] = 2 /\ batchStart[p] = TOTAL_ANGS /\ i[p] = 1
    /\ LoadedCurrentAng(progressFile) = TOTAL_ANGS + 1
    /\ \A k \in 1 .. TOTAL_ANGS : BothWritten(k)

\* ------------------------------------------------------------ properties of the progress file
\* The step is one of save_progress inside mark_ang_as_processed: the open
\* that truncates progress.json, or the dump that writes it.
MarkWrites(p) == pc[p] \in {"mark_open", "mark_write"} /\ exitStatus'[p] # "killed"

\* The step is main() started with --reset (and without --test-api).
ResetRuns(p) == pc[p] = "idle" /\ mode'[p] = "reset"

\* The step calls load_progress: get_next_ang of a default run or of a turn
\* of the batch loop, or the load of mark_ang_as_processed.
Loads(p) == Selects(p) \/ (pc[p] = "mark_load" /\ exitStatus'[p] # "killed")

\* C27: progress.json is written only by the save_progress steps of
\* mark_ang_as_processed and removed only by reset_progress, which writes
\* nothing; every other step leaves it as it is: load_progress and
\* get_next_ang, the fetch, the generation, the formatting, both writes of
\* save_output, --check and --test-api; and load_progress on an absent file
\* returns the initial state and leaves the file absent.
C27_ProgressWriters ==
  [][\A p \in Runners :
       /\ progressFile' # progressFile => MarkWrites(p) \/ ResetRuns(p)
       /\ progressFile' # progressFile /\ progressFile' = AbsentFile => ResetRuns(p)
       /\ ResetRuns(p) => progressFile' = AbsentFile
       /\ Loads(p) /\ progressFile = AbsentFile =>
            /\ progressFile' = AbsentFile
            /\ pc[p] = "mark_load" =>
                 progress'[p] = progress_update(initial_progress, ang_number[p])
            /\ pc[p] # "mark_load" /\ pc'[p] = "fetch" =>
                 ang_number'[p] = initial_progress.current_ang]_vars

\* mark_ang_as_processed has loaded the initial state from an absent file,
\* after the fetch, the generation, the formatting and save_output, and the
\* file is still absent.
C27_Witness ==
  \E p \in Procs :
    /\ pc[p] = "mark_open" /\ progressFile = AbsentFile
    /\ progress[p] = progress_update(initial_progress, 1)
    /\ trace[p] = <<"fetch", "generate", "format", "html", "text">>

\* total_processed = current_ang - 1 and 1 <= current_ang <= TOTAL_ANGS + 1
\* in a progress dict.
Consistent(progress_dict) ==
  LET current_ang == Get(progress_dict, "current_ang", STARTING_ANG)
      total_processed == Get(progress_dict, "total_processed", 0)
  IN
  /\ total_processed = current_ang - 1
  /\ 1 <= current_ang /\ current_ang <= TOTAL_ANGS + 1

\* C28: from an absent progress file, through default, batch, single and
\* reset runs with any failures, the state load_progress returns, the state
\* progress.json holds and the state mark_ang_as_processed is about to save
\* satisfy total_processed = current_ang - 1 and
\* 1 <= current_ang <= TOTAL_ANGS + 1.
C28_CountMatchesPosition ==
  /\ ~load_progress(progressFile).raised
  /\ Consistent(load_progress(progressFile).value)
  /\ progressFile.kind = "object" => Consistent(progressFile.data)
  /\ \A p \in Procs :
       pc[p] \in {"mark_open", "mark_write"} => Consistent(progress[p])

\* After all Angs were processed and the progress was reset, Ang 1 has been
\* processed again.
C28_Witness ==
  /\ progressFile.kind = "object"
  /\ progressFile.data.current_ang = 2 /\ progressFile.data.total_processed = 1
  /\ \A k \in 1 .. TOTAL_ANGS : BothWritten(k)
  /\ \E p \in Procs : mode[p] \in {"default", "batch"} /\ "mark" \in Range(trace[p])

\* ------------------------------------------------------------ properties of --ang
\* The command line gives --ang with a value outside 1 .. TOTAL_ANGS.
AngOutOfRange ==
  apiArg.args.ang # <<>> /\ apiArg.args.ang[1] \notin 1 .. TOTAL_ANGS

\* main() gets as far as "if args.ang": no --test-api, --reset or --check,
\* and Ollama answers.
ReachesDispatch ==
  /\ ~apiArg.args.test_api /\ ~apiArg.args.reset /\ ~apiArg.args.check
  /\ apiArg.ollama_up

\* The run of p has ended as an invalid Ang, with nothing done.
Rejected(p) ==
  /\ mode[p] = "invalid_ang" /\ pc[p] = "idle" /\ exitStatus[p] = "nonzero"
  /\ trace[p] = <<>> /\ fetchOutcome[p] = "none" /\ genOutcome[p] = "none"
  /\ outputFiles = apiArg.disk.outputs
  /\ progressFile = apiArg.disk.progress

\* Every --ang value other than 0 outside 1 .. TOTAL_ANGS is rejected.
NonZeroOutOfRangeRejected ==
  \A p \in Runners :
    /\ AngOutOfRange /\ apiArg.args.ang[1] # 0
    /\ ReachesDispatch /\ exitStatus[p] # "none"
    => Rejected(p)

\* C29: a run with an --ang value outside 1 .. TOTAL_ANGS, 0 and negative
\* numbers included, ends as an invalid Ang without a fetch, a generation, a
\* write to the output directory or a change of progress.json.
C29_OutOfRangeRejected ==
  \A p \in Runners :
    AngOutOfRange /\ ReachesDispatch /\ exitStatus[p] # "none" => Rejected(p)

\* ------------------------------------------------------------ properties of concurrent runs
\* Both invocations selected Ang k, processed it and returned True.
BothProcessed(k) ==
  \A p \in Procs :
    /\ mode[p] = "default" /\ pc[p] = "idle" /\ result[p] = "true"
    /\ ang_number[p] = k
    /\ trace[p] = <<"fetch", "generate", "format", "html", "text", "mark">>

\* The current_ang the invocations started from.
StartAng == LoadedCurrentAng(apiArg.disk.progress)

\* C30: two concurrent default-mode invocations can both select the same
\* Ang k and both process it; when both have, progress.json records
\* current_ang = k + 1 with a total_processed that is k (one of the two
\* updates lost), k + 1 (the Ang counted twice) or 1 (an update computed from
\* the file the other process had just truncated), so that total_processed =
\* current_ang - 1 is not an invariant of concurrent runs.
C30_ConcurrentOutcomes ==
  \A k \in 1 .. TOTAL_ANGS :
    BothProcessed(k) =>
      /\ k = StartAng
      /\ progressFile.kind = "object"
      /\ progressFile.data.current_ang = k + 1
      /\ progressFile.data.last_ang_done = k
      /\ progressFile.data.total_processed \in {k, k + 1, 1}

\* Both invocations processed Ang 2 and it was counted twice: total_processed
\* is no longer current_ang - 1.
C30_Witness ==
  /\ BothProcessed(2)
  /\ progressFile.data.current_ang = 3
  /\ progressFile.data.total_processed = 3
  /\ ~Consistent(progressFile.data)

====
